---- MODULE Spec2Model ----
(***************************************************************************)
(* Model of biosimulators_utils.sedml.exec.exec_doc: the execution of a    *)
(* SED document against an injected task executer, a data generator        *)
(* evaluator, a model-change applier and a report writer.                  *)
(*                                                                         *)
(* One run of exec_doc is one behaviour.  Every loop iteration of the      *)
(* function is one action; pc and the loop indices i, j give the position  *)
(* in the function body.  The collaborators' outcomes (return value or     *)
(* raised exception) are inputs, drawn with \E at the step that calls      *)
(* them.  log is a history variable that records the calls made.           *)
(*                                                                         *)
(* The second part models the entities of sedml.data_model and             *)
(* combine.data_model with their methods to_tuple, is_equal and            *)
(* get_master_content, applied to entities drawn from bounded sets.        *)
(***************************************************************************)
EXTENDS Integers, Sequences, FiniteSets, TLC

VARIABLES
    heap,                       \* object store: reference -> SedDocument
    doc,                        \* the local name doc of exec_doc (a reference)
    working_dir,                \* argument working_dir
    apply_xml_model_changes,    \* argument apply_xml_model_changes
    report_formats,             \* argument report_formats (NoFormats is None)
    pc,                         \* position in the body of exec_doc
    i,                          \* index of the for loop in progress
    j,                          \* index into report_formats while writing
    modified_model_filenames,   \* local list of that name
    files,                      \* temporary files that exist on disk
    variable_results,           \* local mapping variable id -> result
    task_variable_results,      \* local: what task_executer returned last
    data_gen_results,           \* local mapping data generator id -> result
    report_results,             \* local mapping output id -> table
    error,                      \* the exception that left exec_doc, if any
    log,                        \* history of collaborator calls
    self,                       \* data model: the entity a method is called on
    other,                      \* data model: the argument of is_equal
    is_equal_result,            \* what self.is_equal(other) returned
    is_equal_reversed,          \* what other.is_equal(self) returned
    to_tuple_result,            \* what self.to_tuple() and other.to_tuple() returned
    master_content              \* what self.get_master_content() returned

\* the variables of exec_doc and those of the data model
exec_vars == <<heap, doc, working_dir, apply_xml_model_changes, report_formats,
               pc, i, j, modified_model_filenames, files, variable_results,
               task_variable_results, data_gen_results, report_results, error, log>>
data_model_vars == <<self, other, is_equal_result, is_equal_reversed, to_tuple_result,
                     master_content>>
vars == <<exec_vars, data_model_vars>>

----------------------------------------------------------------------------
(* Bounds of the model *)

MaxModels == 2
MaxTasks == 3
MaxDataGens == 1
MaxOutputs == 3
MaxDataSets == 2
MaxVariables == 1
MaxFormats == 2
MaxChildren == 2

----------------------------------------------------------------------------
(* Values *)

\* an identifier is a string; task ids are kept as sequences of code points
\* so that they can be ordered as Python orders str
IdAB == <<1, 2>>
IdB == <<2>>
TaskIds == {IdAB, IdB}
NoId == <<>>

VarIds == {"x", "y"}
DataGenIds == <<"d1", "d2", "d3">>
OutputIds == <<"o1", "o2", "o3", "o4">>
TmpNames == <<"tmp1", "tmp2", "tmp3">>

\* the reference of the caller's document and of the one exec_doc works on
FileRef == 0
CallerRef == 1
CopyRef == 2
NoDoc == [models |-> <<>>, tasks |-> <<>>, data_generators |-> <<>>, outputs |-> <<>>]

\* a result array is known by its shape; None is the absent result
None == [isNone |-> TRUE, shape |-> <<>>]
Array(shape) == [isNone |-> FALSE, shape |-> shape]
Shapes == {<<3>>, <<4>>}
ScalarShape == <<>>

NoFormats == <<"None">>
\* data model: no entity bound, and the result of a method not yet called
NoEntity == [class |-> ""]
NotCalled == "not called"
NoCall == [raised |-> NotCalled, returned |-> [class |-> "NoneType"]]

NoError == [type |-> "", what |-> "", var |-> "", task |-> NoId, output |-> "", class |-> ""]

Range(s) == {s[k] : k \in 1..Len(s)}
SeqsUpTo(S, n) == UNION {[1..k -> S] : k \in 0..n}

----------------------------------------------------------------------------
(* Paths: os.path.isabs and os.path.join on (absolute?, components) *)

Path(abs, parts) == [abs |-> abs, parts |-> parts]

isabs(p) == p.abs

\* os.path.join(a, b): b replaces a when b is absolute, else b is appended
join(a, b) == IF b.abs THEN b ELSE Path(a.abs, a.parts \o b.parts)

\* a name that tempfile.mkstemp returned before
mkstemp_same(n) == Path(TRUE, <<"tmp", TmpNames[1]>>)

\* the name tempfile.mkstemp(suffix='.xml') returns for the n-th call
mkstemp(n) == Path(TRUE, <<"tmp", TmpNames[n]>>)

----------------------------------------------------------------------------
(* Order of task ids: Python compares str by code point, a proper prefix   *)
(* is smaller                                                              *)

RECURSIVE StrLess(_, _)
StrLess(a, b) ==
    IF b = <<>> THEN FALSE
    ELSE IF a = <<>> THEN TRUE
    ELSE IF a[1] # b[1] THEN a[1] < b[1]
    ELSE StrLess(Tail(a), Tail(b))

\* list.sort(key=lambda task: task.id): ascending and stable; insertion of
\* each element behind the elements whose key is not larger
RECURSIVE InsertByKey(_, _)
InsertByKey(t, sorted) ==
    IF sorted = <<>> THEN <<t>>
    ELSE IF StrLess(t.id, sorted[1].id) THEN <<t>> \o sorted
    ELSE <<sorted[1]>> \o InsertByKey(t, Tail(sorted))

RECURSIVE SortByKey(_, _)
SortByKey(todo, sorted) ==
    IF todo = <<>> THEN sorted
    ELSE SortByKey(Tail(todo), InsertByKey(todo[1], sorted))

\* the tasks left in the order of their declaration
sort_declared(tasks) == tasks

\* the tasks sorted after keying them by id, the last of equal ids kept
sort_keyed(tasks) ==
    SortByKey(SelectSeq(tasks, LAMBDA t : \A u \in Range(tasks) : u.id = t.id => u.ref <= t.ref),
              <<>>)

\* the tasks sorted by id, those of equal ids in the reverse of their order
sort_ties_reversed(tasks) ==
    SortByKey([k \in DOMAIN tasks |-> tasks[Len(tasks) + 1 - k]], <<>>)

sort(tasks) == SortByKey(tasks, <<>>)

----------------------------------------------------------------------------
(* Collaborators of exec_doc *)

\* get_variables_for_task(doc, task): the variables of the document's data
\* generators that are bound to the task, each known by its position
get_variables_for_task(d, task) ==
    UNION {{<<g, k>> : k \in {n \in DOMAIN d.data_generators[g].variables :
                                 d.data_generators[g].variables[n].task = task.ref}} :
           g \in DOMAIN d.data_generators}

VarAt(d, gk) == d.data_generators[gk[1]].variables[gk[2]]

\* the orders in which the list of a task's variables can be returned
Orders(S) == {s \in [1..Cardinality(S) -> S] : Range(s) = S}

\* what a task_executer can return: a mapping of some variable ids to an
\* array or to None
Results == {None} \cup {Array(s) : s \in Shapes}
TaskVariableResults == UNION {[D -> Results] : D \in SUBSET VarIds}

\* a lookup whose default is an empty array
get_default_array(mapping, id) == IF id \in DOMAIN mapping THEN mapping[id] ELSE Array(ScalarShape)

\* task_variable_results.get(id, None)
get(mapping, id) == IF id \in DOMAIN mapping THEN mapping[id] ELSE None

\* the loop of lines 113-116 over task_vars in the given order, from
\* position k on: stores each result and stops at the first None
RECURSIVE StoreVariableResults(_, _, _, _, _)
StoreVariableResults_update(d, order, k, mapping, vr) ==
    LET ids == {VarAt(d, order[n]).id : n \in DOMAIN order}
        none == {id \in ids : get(mapping, id).isNone}
    IN  [results |-> mapping @@ vr,
         missing |-> IF none = {} THEN "" ELSE CHOOSE id \in none : TRUE]
StoreVariableResults(d, order, k, mapping, vr) ==
    IF k > Len(order) THEN [results |-> vr, missing |-> ""]
    ELSE LET id == VarAt(d, order[k]).id
             stored == (id :> get(mapping, id)) @@ vr
         IN  IF stored[id].isNone
             THEN [results |-> stored, missing |-> id]
             ELSE StoreVariableResults(d, order, k + 1, mapping, stored)

\* calc_data_generator_results(data_gen, variable_results): the shapes the
\* result can have; none when a variable of the generator has no result
VariableShapes(dg, vr) ==
    {vr[dg.variables[k].id].shape : k \in 1..Len(dg.variables)}

calc_data_generator_results(dg, vr) ==
    IF \E k \in 1..Len(dg.variables) : dg.variables[k].id \notin DOMAIN vr
    THEN {}
    ELSE IF dg.variables = <<>> THEN {Array(ScalarShape)}
    ELSE {Array(s) : s \in VariableShapes(dg, vr)}

----------------------------------------------------------------------------
(* The state of a run *)

\* a test that does not know the class Plot3D
isinstance_AbstractTask(obj, class) ==
    obj.kind = class \/ (class = "Task" /\ obj.kind = "OtherTask")
\* a test that takes an output of an unknown class for a Plot3D
isinstance_Output(obj, class) ==
    obj.kind = class \/ (class = "Plot3D" /\ obj.kind = "OtherOutput")
isinstance_no_Plot3D(obj, class) == obj.kind = class /\ class # "Plot3D"

\* isinstance(obj, class) for the classes exec_doc tells apart; these
\* classes have no subclasses
isinstance(obj, class) == obj.kind = class

\* the document the local name doc refers to
D == heap[doc]

EmptyMap == [x \in {} |-> None]

Event(op, n, f) == [op |-> op, n |-> n, f |-> f]
Events(op) == SelectSeq(log, LAMBDA e : e.op = op)

\* the call apply_changes_to_xml_model(model.changes, in_file, out_file)
\* for the n-th model
Applied(n, in_file, out_file) ==
    [op |-> "apply_changes_to_xml_model", n |-> n, f |-> out_file.parts[2],
     in_file |-> in_file, out_file |-> out_file]

\* raise: the exception leaves exec_doc, nothing of the body runs after it
\* the exception is recorded and the body goes on
Raise_and_continue(type, what, var, task, output, class) ==
    /\ pc' = pc
    /\ error' = [type |-> type, what |-> what, var |-> var, task |-> task,
                 output |-> output, class |-> class]

\* var, task, output and class are what the message of the exception names
Raise(type, what, var, task, output, class) ==
    /\ pc' = "raised"
    /\ error' = [type |-> type, what |-> what, var |-> var, task |-> task,
                 output |-> output, class |-> class]

\* model.source = value, for the i-th model of the document doc refers to
SetSource(n, value) == [heap EXCEPT ![doc].models[n].source = value]

----------------------------------------------------------------------------
(* exec_doc, lines 67-77: process arguments *)

\* no copy: the same object
deepcopy_same(h, ref) == [ref |-> ref, heap |-> h]

\* copy.deepcopy(doc): a new object with the same contents
deepcopy(h, ref) == [ref |-> CopyRef, heap |-> [h EXCEPT ![CopyRef] = h[ref]]]

\* SedmlSimulationReader().run(path): a new object with the file's contents
SedmlSimulationReader(h, ref) == [ref |-> CopyRef, heap |-> [h EXCEPT ![CopyRef] = h[ref]]]

\* get_config().REPORT_FORMATS when the environment does not set it
REPORT_FORMATS == <<"csv", "h5">>

Load ==
    /\ pc = "process arguments"
    /\ \/ /\ doc = CallerRef
          /\ heap' = deepcopy(heap, doc).heap
          /\ doc' = deepcopy(heap, doc).ref
          /\ pc' = "apply changes to models"
          /\ error' = error
       \/ /\ doc = FileRef
          /\ heap' = SedmlSimulationReader(heap, doc).heap
          /\ doc' = SedmlSimulationReader(heap, doc).ref
          /\ pc' = "apply changes to models"
          /\ error' = error
       \/ /\ doc = FileRef
          /\ Raise("ValueError", "SedmlSimulationReader", "", NoId, "", "")
          /\ UNCHANGED <<heap, doc>>
    /\ report_formats' = IF report_formats = NoFormats THEN REPORT_FORMATS ELSE report_formats
    /\ i' = 1
    /\ modified_model_filenames' = <<>>
    /\ UNCHANGED <<working_dir, apply_xml_model_changes, j, files, variable_results, task_variable_results,
                   data_gen_results, report_results, log>>
    /\ UNCHANGED data_model_vars

----------------------------------------------------------------------------
(* exec_doc, lines 79-95: apply changes to models *)

\* the source appended to the working directory, absolute or not
Resolved_appended(source) == Path(working_dir.abs, working_dir.parts \o source.parts)

\* line 82-83: the source of a model, resolved against the working directory
Resolved(source) == IF ~isabs(source) THEN join(working_dir, source) ELSE source

ApplyModelChanges ==
    /\ pc = "apply changes to models"
    /\ i <= Len(D.models)
    /\ LET model == D.models[i]
           original_model_filename == Resolved(model.source)
           modified_model_filename == mkstemp(Len(Events("mkstemp")) + 1)
       IN  IF apply_xml_model_changes /\ model.changes # <<>>
           THEN /\ files' = files \cup {modified_model_filename}
                /\ \/ /\ heap' = SetSource(i, modified_model_filename)
                      /\ modified_model_filenames' =
                             Append(modified_model_filenames, modified_model_filename)
                      /\ log' = log \o <<Event("mkstemp", i, modified_model_filename.parts[2]),
                                         Applied(i, original_model_filename,
                                                 modified_model_filename)>>
                      /\ i' = i + 1
                      /\ UNCHANGED <<pc, error>>
                   \/ /\ heap' = SetSource(i, original_model_filename)
                      /\ log' = log \o <<Event("mkstemp", i, modified_model_filename.parts[2]),
                                         Applied(i, original_model_filename,
                                                 modified_model_filename)>>
                      /\ Raise("Exception", "apply_changes_to_xml_model", "", NoId, "", "")
                      /\ UNCHANGED <<i, modified_model_filenames>>
           ELSE /\ heap' = SetSource(i, original_model_filename)
                /\ i' = i + 1
                /\ UNCHANGED <<pc, error, files, modified_model_filenames, log>>
    /\ UNCHANGED <<doc, working_dir, apply_xml_model_changes, report_formats, j,
                   variable_results, task_variable_results, data_gen_results, report_results>>
    /\ UNCHANGED data_model_vars

----------------------------------------------------------------------------
(* exec_doc, lines 97-119: execute simulations *)

\* lines 98-99, reached when the loop over the models is exhausted
SortTasks ==
    /\ pc = "apply changes to models"
    /\ i > Len(D.models)
    /\ variable_results' = EmptyMap
    /\ heap' = [heap EXCEPT ![doc].tasks = sort(@)]
    /\ pc' = "execute simulations"
    /\ i' = 1
    /\ UNCHANGED <<doc, working_dir, apply_xml_model_changes, report_formats, j,
                   modified_model_filenames, files, task_variable_results,
                   data_gen_results, report_results, error, log>>
    /\ UNCHANGED data_model_vars

\* one iteration of the loop over the tasks, lines 104-119
ExecTask ==
    /\ pc = "execute simulations"
    /\ i <= Len(D.tasks)
    /\ LET task == D.tasks[i] IN
       IF isinstance(task, "Task")
       THEN \/ /\ log' = Append(log, Event("task_executer", task.ref, ""))
               /\ Raise("Exception", "task_executer", "", NoId, "", "")
               /\ UNCHANGED <<i, variable_results, task_variable_results>>
            \/ \E returned \in TaskVariableResults,
                  task_vars \in Orders(get_variables_for_task(D, task)) :
                 LET stored == StoreVariableResults(D, task_vars, 1, returned,
                                                    variable_results)
                 IN  /\ log' = log \o <<Event("task_executer", task.ref, ""),
                                        Event("task_executer returned", task.ref, "")>>
                     /\ task_variable_results' = returned
                     /\ variable_results' = stored.results
                     /\ IF stored.missing # ""
                        THEN /\ Raise("ValueError", "Variable must be generated for task",
                                      stored.missing, task.id, "", "")
                             /\ i' = i
                        ELSE /\ i' = i + 1
                             /\ UNCHANGED <<pc, error>>
       ELSE /\ Raise("NotImplementedError", "Tasks of type are not supported",
                     "", NoId, "", task.kind)
            /\ UNCHANGED <<i, variable_results, task_variable_results, log>>
    /\ UNCHANGED <<heap, doc, working_dir, apply_xml_model_changes, report_formats, j,
                   modified_model_filenames, files, data_gen_results, report_results>>
    /\ UNCHANGED data_model_vars

----------------------------------------------------------------------------
(* exec_doc, lines 121-124: calculate data generators *)

\* the loop over the tasks left before it is exhausted
EndTasks_early ==
    /\ pc = "execute simulations"
    /\ data_gen_results' = EmptyMap
    /\ pc' = "calculate data generators"
    /\ i' = 1
    /\ UNCHANGED <<heap, doc, working_dir, apply_xml_model_changes, report_formats, j,
                   modified_model_filenames, files, variable_results, task_variable_results,
                   report_results, error, log>>
    /\ UNCHANGED data_model_vars

\* line 122, reached when the loop over the tasks is exhausted
EndTasks ==
    /\ pc = "execute simulations"
    /\ i > Len(D.tasks)
    /\ data_gen_results' = EmptyMap
    /\ pc' = "calculate data generators"
    /\ i' = 1
    /\ UNCHANGED <<heap, doc, working_dir, apply_xml_model_changes, report_formats, j,
                   modified_model_filenames, files, variable_results, task_variable_results, report_results,
                   error, log>>
    /\ UNCHANGED data_model_vars

\* one iteration of the loop over the data generators, lines 123-124; the
\* evaluation can fail for any data generator
CalcDataGenerator ==
    /\ pc = "calculate data generators"
    /\ i <= Len(D.data_generators)
    /\ LET data_gen == D.data_generators[i] IN
       /\ log' = Append(log, Event("calc_data_generator_results", i, data_gen.id))
       /\ \/ /\ Raise("Exception", "calc_data_generator_results", "", NoId, "", "")
             /\ UNCHANGED <<i, data_gen_results>>
          \/ \E result \in calc_data_generator_results(data_gen, variable_results) :
                /\ data_gen_results' = (data_gen.id :> result) @@ data_gen_results
                /\ i' = i + 1
                /\ UNCHANGED <<pc, error>>
    /\ UNCHANGED <<heap, doc, working_dir, apply_xml_model_changes, report_formats, j,
                   modified_model_filenames, files, variable_results, task_variable_results, report_results>>
    /\ UNCHANGED data_model_vars

----------------------------------------------------------------------------
(* exec_doc, lines 126-167: generate outputs *)

\* the first output written before it is shaped
EndDataGenerators_write ==
    /\ pc = "calculate data generators"
    /\ i > Len(D.data_generators)
    /\ report_results' = EmptyMap
    /\ pc' = "write report"
    /\ i' = 1
    /\ j' = 1
    /\ UNCHANGED <<heap, doc, working_dir, apply_xml_model_changes, report_formats,
                   modified_model_filenames, files, variable_results, task_variable_results,
                   data_gen_results, error, log>>
    /\ UNCHANGED data_model_vars

\* line 127, reached when the loop over the data generators is exhausted
EndDataGenerators ==
    /\ pc = "calculate data generators"
    /\ i > Len(D.data_generators)
    /\ report_results' = EmptyMap
    /\ pc' = "generate outputs"
    /\ i' = 1
    /\ UNCHANGED <<heap, doc, working_dir, apply_xml_model_changes, report_formats, j,
                   modified_model_filenames, files, variable_results, task_variable_results, data_gen_results,
                   error, log>>
    /\ UNCHANGED data_model_vars

\* lines 130-138: the labels, results and shapes gathered from the data sets
\* (dataset_shapes_first: the shape of the first data set only)
dataset_labels(output) == [k \in DOMAIN output.data_sets |-> output.data_sets[k].label]
dataset_results(output) ==
    [k \in DOMAIN output.data_sets |-> data_gen_results[output.data_sets[k].data_generator]]
dataset_shapes_first(output) ==
    {data_gen_results[output.data_sets[k].data_generator].shape :
        k \in DOMAIN output.data_sets \cap {1}}
dataset_shapes(output) == {dataset_results(output)[k].shape : k \in DOMAIN output.data_sets}

\* a table keyed by label: one row per distinct label, the first kept
DataFrame_unique_labels(results, labels, output) ==
    LET first == {k \in DOMAIN results : \A m \in 1..(k - 1) : labels[m] # labels[k]}
        F[n \in 0..Len(results)] ==
            IF n = 0 THEN <<>>
            ELSE IF n \in first
                 THEN Append(F[n - 1],
                             [index |-> labels[n], data |-> results[n],
                              data_generator |-> output.data_sets[n].data_generator])
                 ELSE F[n - 1]
    IN  F[Len(results)]

\* a table of the results of the data generators: one row per data
\* generator, under the label of the first data set bound to it
DataFrame_per_data_generator(results, labels, output) ==
    LET first == {k \in DOMAIN results :
                     \A m \in 1..(k - 1) :
                        output.data_sets[m].data_generator # output.data_sets[k].data_generator}
        F[n \in 0..Len(results)] ==
            IF n = 0 THEN <<>>
            ELSE IF n \in first
                 THEN Append(F[n - 1],
                             [index |-> labels[n], data |-> results[n],
                              data_generator |-> output.data_sets[n].data_generator])
                 ELSE F[n - 1]
    IN  F[Len(results)]

\* line 147: the table, one row per data set, indexed by the labels
DataFrame(results, labels, output) ==
    [k \in DOMAIN results |->
        [index |-> labels[k], data |-> results[k],
         data_generator |-> output.data_sets[k].data_generator]]

\* one iteration of the loop over the outputs up to the writing of the
\* report, lines 128-148 and 156-167
GenerateOutput ==
    /\ pc = "generate outputs"
    /\ i <= Len(D.outputs)
    /\ LET output == D.outputs[i] IN
       CASE isinstance(output, "Report") ->
              IF \E k \in DOMAIN output.data_sets :
                    output.data_sets[k].data_generator \notin DOMAIN data_gen_results
              THEN /\ Raise("KeyError", "data_gen_results", "", NoId, "", "")
                   /\ UNCHANGED <<i, j, report_results, log>>
              ELSE IF Cardinality(dataset_shapes(output)) > 1
              THEN /\ Raise("ValueError", "Data generators for report must have consistent shapes",
                            "", NoId, output.id, "")
                   /\ UNCHANGED <<i, j, report_results, log>>
              ELSE /\ log' = (IF Cardinality(Range(dataset_labels(output)))
                                     < Len(dataset_labels(output))
                              THEN Append(log, Event("warn", i, "IllogicalSedmlWarning"))
                              ELSE log)
                             \o <<Event("DataFrame", i, output.id)>>
                   /\ report_results' =
                          (output.id :> DataFrame(dataset_results(output),
                                                  dataset_labels(output), output))
                          @@ report_results
                   /\ pc' = "write report"
                   /\ j' = 1
                   /\ UNCHANGED <<i, error>>
         [] isinstance(output, "Plot2D") \/ isinstance(output, "Plot3D") ->
              /\ log' = Append(log, Event("warn", i, "SedmlFeatureNotSupportedWarning"))
              /\ i' = i + 1
              /\ UNCHANGED <<pc, j, report_results, error>>
         [] OTHER ->
              /\ Raise("NotImplementedError", "Outputs of type are not supported",
                       "", NoId, "", output.kind)
              /\ UNCHANGED <<i, j, report_results, log>>
    /\ UNCHANGED <<heap, doc, working_dir, apply_xml_model_changes, report_formats,
                   modified_model_filenames, files, variable_results, task_variable_results, data_gen_results>>
    /\ UNCHANGED data_model_vars

\* the loop over the report formats left after the first format
WriteReport_first_only ==
    /\ pc = "write report"
    /\ j <= Len(report_formats)
    /\ log' = Append(log, Event("ReportWriter", i, report_formats[j]))
    /\ \/ /\ j' = Len(report_formats) + 1
          /\ UNCHANGED <<pc, error>>
       \/ /\ Raise("Exception", "ReportWriter", "", NoId, "", "")
          /\ UNCHANGED j
    /\ UNCHANGED <<heap, doc, working_dir, apply_xml_model_changes, report_formats, i,
                   modified_model_filenames, files, variable_results, task_variable_results, data_gen_results,
                   report_results>>
    /\ UNCHANGED data_model_vars

\* one iteration of the loop over the report formats, lines 150-154; the
\* writer can fail
WriteReport ==
    /\ pc = "write report"
    /\ j <= Len(report_formats)
    /\ log' = Append(log, Event("ReportWriter", i, report_formats[j]))
    /\ \/ /\ j' = j + 1
          /\ UNCHANGED <<pc, error>>
       \/ /\ Raise("Exception", "ReportWriter", "", NoId, "", "")
          /\ UNCHANGED j
    /\ UNCHANGED <<heap, doc, working_dir, apply_xml_model_changes, report_formats, i,
                   modified_model_filenames, files, variable_results, task_variable_results, data_gen_results,
                   report_results>>
    /\ UNCHANGED data_model_vars

\* the loop over the report formats is exhausted: next output
EndWriteReport ==
    /\ pc = "write report"
    /\ j > Len(report_formats)
    /\ pc' = "generate outputs"
    /\ i' = i + 1
    /\ UNCHANGED <<heap, doc, working_dir, apply_xml_model_changes, report_formats, j,
                   modified_model_filenames, files, variable_results, task_variable_results, data_gen_results,
                   report_results, error, log>>
    /\ UNCHANGED data_model_vars

----------------------------------------------------------------------------
(* exec_doc, lines 169-173: cleanup modified models and return *)

\* the loop over the outputs is exhausted
EndOutputs ==
    /\ pc = "generate outputs"
    /\ i > Len(D.outputs)
    /\ pc' = "cleanup modified models"
    /\ i' = 1
    /\ UNCHANGED <<heap, doc, working_dir, apply_xml_model_changes, report_formats, j,
                   modified_model_filenames, files, variable_results, task_variable_results, data_gen_results,
                   report_results, error, log>>
    /\ UNCHANGED data_model_vars

\* one iteration of the loop of lines 170-171
Cleanup ==
    /\ pc = "cleanup modified models"
    /\ i <= Len(modified_model_filenames)
    /\ files' = files \ {modified_model_filenames[i]}
    /\ log' = Append(log, Event("os.remove", i, modified_model_filenames[i].parts[2]))
    /\ i' = i + 1
    /\ UNCHANGED <<heap, doc, working_dir, apply_xml_model_changes, report_formats, pc, j,
                   modified_model_filenames, variable_results, task_variable_results, data_gen_results,
                   report_results, error>>
    /\ UNCHANGED data_model_vars

\* line 173
Return ==
    /\ pc = "cleanup modified models"
    /\ i > Len(modified_model_filenames)
    /\ pc' = "returned"
    /\ UNCHANGED <<heap, doc, working_dir, apply_xml_model_changes, report_formats, i, j,
                   modified_model_filenames, files, variable_results, task_variable_results, data_gen_results,
                   report_results, error, log>>
    /\ UNCHANGED data_model_vars

----------------------------------------------------------------------------
(* The documents and arguments exec_doc is run on *)

ModelIds == <<"m1", "m2", "m3">>
Model(n, abs, changes) ==
    [id |-> ModelIds[n], source |-> Path(abs, <<"model.xml">>), changes |-> changes]
Models ==
    UNION {{[n \in 1..len |-> Model(n, c[n][1], c[n][2])] :
               c \in [1..len -> BOOLEAN \X {<<>>, <<"change">>}]} : len \in 0..MaxModels}

\* ref is the identity of the task object: its position in the caller's list
Task(n, id, kind) == [ref |-> n, id |-> id, kind |-> kind]
Tasks ==
    UNION {{[n \in 1..len |-> Task(n, c[n][1], c[n][2])] :
               c \in [1..len -> TaskIds \X {"Task", "OtherTask"}]} : len \in 0..MaxTasks}

\* a variable is bound to a task object, which may not be a task of the document
DataGeneratorVariable(id, task) == [id |-> id, task |-> task]
Variables ==
    SeqsUpTo({DataGeneratorVariable(id, t) : id \in VarIds, t \in {1, 2}}, MaxVariables)
DataGenerator(n, variables) == [id |-> DataGenIds[n], variables |-> variables]
DataGenerators ==
    UNION {{[n \in 1..len |-> DataGenerator(n, c[n])] : c \in [1..len -> Variables]} :
           len \in 0..MaxDataGens}

\* a data set is bound to a data generator, known here by its id
DataSet(label, data_generator) == [label |-> label, data_generator |-> data_generator]
DataSets ==
    SeqsUpTo({DataSet(l, DataGenIds[g]) : l \in {"L1", "L2"}, g \in {1, 2}}, MaxDataSets)
Output(n, kind, data_sets) == [id |-> OutputIds[n], kind |-> kind, data_sets |-> data_sets]

SedDocument(models, tasks, data_generators, outputs) ==
    [models |-> models, tasks |-> tasks, data_generators |-> data_generators,
     outputs |-> outputs]

\* the parts of a document that are held fixed while another part varies
SomeModels == <<Model(1, FALSE, <<"change">>)>>
SomeTasks == <<Task(1, IdB, "Task")>>
TwoTasks == <<Task(1, IdB, "Task"), Task(2, IdAB, "Task")>>
\* x and y of the first task
SomeDataGenerators ==
    <<DataGenerator(1, <<DataGeneratorVariable("x", 1)>>),
      DataGenerator(2, <<DataGeneratorVariable("y", 1)>>)>>
\* x of the first task and x of the second task
SharedDataGenerators ==
    <<DataGenerator(1, <<DataGeneratorVariable("x", 1)>>),
      DataGenerator(2, <<DataGeneratorVariable("x", 2)>>)>>
SomeDataSets == <<DataSet("L1", DataGenIds[1])>>
TwoDataSets == <<DataSet("L1", DataGenIds[1]), DataSet("L2", DataGenIds[2])>>
SomeOutputs == <<Output(1, "Report", SomeDataSets)>>
TwoOutputs == <<Output(1, "Report", TwoDataSets), Output(2, "Report", SomeDataSets)>>

\* the output lists of every mix of output classes
OutputChoices ==
    {<<"Report", SomeDataSets>>, <<"Report", TwoDataSets>>}
        \cup {<<k, <<>> >> : k \in {"Plot2D", "Plot3D", "OtherOutput"}}
Outputs ==
    UNION {{[n \in 1..len |-> Output(n, c[n][1], c[n][2])] : c \in [1..len -> OutputChoices]} :
           len \in 0..MaxOutputs}

\* the output lists that end with a report of every list of data sets
Reports ==
    UNION {{<<Output(1, "Report", ds)>>,
            <<Output(1, "Report", SomeDataSets), Output(2, "Report", ds)>>} : ds \in DataSets}

\* the values of the argument report_formats: None or a list of formats
ReportFormats == {NoFormats} \cup SeqsUpTo({"csv", "h5"}, MaxFormats)

AbsoluteDir == Path(TRUE, <<"wd">>)
RelativeDir == Path(FALSE, <<"wd">>)

Arguments(d, ref, wd, apply, formats) ==
    [doc |-> d, ref |-> ref, working_dir |-> wd, apply_xml_model_changes |-> apply,
     report_formats |-> formats]

\* the calls of exec_doc.  Each part of the input varies over all its
\* values within the bounds while the other parts are held fixed: the model
\* list with the way the document is passed, the working directory and
\* apply_xml_model_changes; the task list; the data generator list; the
\* output list; the data sets of a report; the report formats
Calls ==
    {Arguments(SedDocument(m, SomeTasks, SomeDataGenerators, SomeOutputs), ref, wd, apply,
               NoFormats) :
        m \in Models, ref \in {FileRef, CallerRef}, wd \in {AbsoluteDir, RelativeDir},
        apply \in BOOLEAN}
    \cup
    {Arguments(SedDocument(SomeModels, t, g, SomeOutputs), CallerRef, AbsoluteDir, TRUE,
               <<"csv">>) :
        t \in Tasks, g \in {SomeDataGenerators, SharedDataGenerators}}
    \cup
    {Arguments(SedDocument(SomeModels, TwoTasks, g, SomeOutputs), CallerRef, AbsoluteDir, TRUE,
               <<"csv">>) :
        g \in DataGenerators}
    \cup
    {Arguments(SedDocument(SomeModels, SomeTasks, SomeDataGenerators, o), CallerRef,
               AbsoluteDir, TRUE, <<"csv">>) :
        o \in Outputs \cup Reports}
    \cup
    {Arguments(SedDocument(SomeModels, SomeTasks, SomeDataGenerators, o), CallerRef,
               AbsoluteDir, TRUE, formats) :
        o \in {SomeOutputs, TwoOutputs}, formats \in ReportFormats}

Init ==
    \E call \in Calls :
        /\ heap = [ref \in {FileRef, CallerRef, CopyRef} |->
                       IF ref = call.ref THEN call.doc ELSE NoDoc]
        /\ doc = call.ref
        /\ working_dir = call.working_dir
        /\ apply_xml_model_changes = call.apply_xml_model_changes
        /\ report_formats = call.report_formats
        /\ pc = "process arguments"
        /\ i = 0
        /\ j = 0
        /\ modified_model_filenames = <<>>
        /\ files = {}
        /\ variable_results = EmptyMap
        /\ task_variable_results = EmptyMap
        /\ data_gen_results = EmptyMap
        /\ report_results = EmptyMap
        /\ error = NoError
        /\ log = <<>>
        /\ self = NoEntity
        /\ other = NoEntity
        /\ is_equal_result = NotCalled
        /\ is_equal_reversed = NotCalled
        /\ to_tuple_result = <<>>
        /\ master_content = NoCall

Next ==
    \/ Load
    \/ ApplyModelChanges
    \/ SortTasks
    \/ ExecTask
    \/ EndTasks
    \/ CalcDataGenerator
    \/ EndDataGenerators
    \/ GenerateOutput
    \/ WriteReport
    \/ EndWriteReport
    \/ EndOutputs
    \/ Cleanup
    \/ Return

Spec == Init /\ [][Next]_vars

----------------------------------------------------------------------------
(* Notions the properties are stated in *)

\* the document as the caller supplied it (in memory or in the file)
Original == IF heap[CallerRef] # NoDoc THEN heap[CallerRef] ELSE heap[FileRef]

Exited == pc \in {"returned", "raised"}

\* the task object with the given identity
TaskByRef(ref) == CHOOSE t \in Range(Original.tasks) : t.ref = ref

\* the ids of the variables requested from a task
Requested(task) == {VarAt(D, gk).id : gk \in get_variables_for_task(D, task)}

\* the phase a logged call belongs to
Phase(op) ==
    CASE op \in {"mkstemp", "apply_changes_to_xml_model"} -> 1
      [] op \in {"task_executer", "task_executer returned"} -> 2
      [] op = "calc_data_generator_results" -> 3
      [] op \in {"DataFrame", "warn", "ReportWriter"} -> 4
      [] op = "os.remove" -> 5

\* the n-th output has been shaped (a report) or skipped (a plot)
Handled(n) ==
    \E e \in Range(log) :
        /\ e.n = n
        /\ \/ e.op = "DataFrame"
           \/ e.op = "warn" /\ e.f = "SedmlFeatureNotSupportedWarning"

ShapeMismatch == "Data generators for report must have consistent shapes"

----------------------------------------------------------------------------
(* Properties *)

\* C1: every temporary model file exec_doc created has been removed when
\* exec_doc exits, by return or by a raised error
C1_TempFilesRemovedOnExit == Exited => files = {}

\* C2: the task executer is invoked in ascending order of task id: when a
\* task is invoked, the callback has already returned for every task of the
\* document with a smaller id
C2_TasksInIdOrder ==
    \A q \in DOMAIN log :
        log[q].op = "task_executer" =>
            \A a \in Range(Original.tasks) :
                StrLess(a.id, TaskByRef(log[q].n).id) =>
                    \E p \in 1..(q - 1) :
                        log[p].op = "task_executer returned" /\ log[p].n = a.ref

\* a run that returned after executing the second declared task first
C2_Witness ==
    /\ pc = "returned"
    /\ Len(Events("task_executer")) = 2
    /\ Events("task_executer")[1].n = 2
    /\ StrLess(TaskByRef(2).id, TaskByRef(1).id)

\* C3: the task executer is invoked at most once per task, and in a run
\* that returns exactly once for every task of the document
C3_OncePerTask ==
    /\ \A t \in Range(Original.tasks) :
          Cardinality({p \in DOMAIN log :
                          log[p].op = "task_executer" /\ log[p].n = t.ref}) <= 1
    /\ pc = "returned" =>
          \A t \in Range(Original.tasks) :
              Cardinality({p \in DOMAIN log :
                              log[p].op = "task_executer" /\ log[p].n = t.ref}) = 1

\* a run that returned for two tasks of which one has no variable requested
C3_Witness ==
    /\ pc = "returned"
    /\ Len(Original.tasks) = 2
    /\ \E t \in Range(D.tasks) : Requested(t) = {}
    /\ \E t \in Range(D.tasks) : Requested(t) # {}

\* C4: when the mapping the task executer returned for a task lacks a
\* requested variable id or maps it to None, exec_doc raises an error that
\* names such a variable id and the id of the task, and does not return
C4_MissingVariableRaises ==
    [][(/\ pc = "execute simulations"
        /\ log' # log
        /\ log'[Len(log')].op = "task_executer returned")
       => LET task == D.tasks[i]
              missing == {v \in Requested(task) :
                             \/ v \notin DOMAIN task_variable_results'
                             \/ task_variable_results'[v].isNone}
          IN  missing # {} =>
                  /\ pc' = "raised"
                  /\ error'.type = "ValueError"
                  /\ error'.var \in missing
                  /\ error'.task = task.id]_vars

\* a run that raised for a variable id the returned mapping does not hold
C4_Witness ==
    /\ pc = "raised"
    /\ error.type = "ValueError"
    /\ error.var \in VarIds
    /\ error.var \notin DOMAIN task_variable_results
    /\ error.task = D.tasks[i].id

\* C5: the document object of the caller is never changed by exec_doc
C5_CallerDocumentUnchanged == [][heap'[CallerRef] = heap[CallerRef]]_vars

\* a run on an in-memory document that resolved a model source and sorted
\* the tasks into another order
C5_Witness ==
    /\ Exited
    /\ heap[CallerRef] # NoDoc
    /\ heap[CopyRef].tasks # heap[CallerRef].tasks
    /\ heap[CopyRef].models # heap[CallerRef].models

\* C6 as stated: the report writer is not invoked before every output of
\* the document has been shaped, and an error raised while shaping an
\* output leaves no report written
C6_NoWriteBeforeAllShaped ==
    /\ Events("ReportWriter") # <<>> => \A n \in DOMAIN D.outputs : Handled(n)
    /\ (pc = "raised" /\ error.what \in {ShapeMismatch, "Outputs of type are not supported"})
           => Events("ReportWriter") = <<>>

\* C6 as amended: outputs are handled one at a time in the order of the
\* document; the writer is invoked for a report only after that report has
\* been shaped and stored and never for an output behind the one in
\* progress, so an error raised while shaping output i leaves no report
\* written for output i or a later one
C6_ShapedBeforeWritten ==
    /\ \A q \in DOMAIN log :
          log[q].op = "ReportWriter" =>
              /\ \E p \in 1..(q - 1) : log[p].op = "DataFrame" /\ log[p].n = log[q].n
              /\ log[q].n \in DOMAIN D.outputs
              /\ D.outputs[log[q].n].id \in DOMAIN report_results
              /\ \A p \in 1..(q - 1) : Phase(log[p].op) = 4 => log[p].n <= log[q].n
    /\ (pc = "raised" /\ error.what \in {ShapeMismatch, "Outputs of type are not supported"})
           => \A e \in Range(log) : e.op = "ReportWriter" => e.n < i

\* a run that wrote the first report and then raised on the shapes of the second
C6_Witness ==
    /\ pc = "raised"
    /\ error.what = ShapeMismatch
    /\ i = 2
    /\ D.outputs[1].data_sets # <<>>
    /\ OutputIds[1] \in DOMAIN report_results
    /\ \E e \in Range(log) : e.op = "ReportWriter" /\ e.n = 1

\* C7: the phases of a run do not overlap: the calls are made in the order
\* of the phases; when the first task is invoked every model source has
\* been resolved and every model change applied; when the first data
\* generator is evaluated the task executer has returned for every task;
\* when the first output is handled every data generator has been evaluated
C7_PhasesInSequence ==
    /\ \A p, q \in DOMAIN log : p < q => Phase(log[p].op) <= Phase(log[q].op)
    /\ (\E e \in Range(log) : Phase(e.op) >= 2) =>
          \A n \in DOMAIN Original.models :
              IF apply_xml_model_changes /\ Original.models[n].changes # <<>>
              THEN /\ D.models[n].source \in Range(modified_model_filenames)
                   /\ \E e \in Range(log) : e.op = "apply_changes_to_xml_model" /\ e.n = n
              ELSE D.models[n].source = Resolved(Original.models[n].source)
    /\ (\E e \in Range(log) : Phase(e.op) >= 3) =>
          \A t \in Range(Original.tasks) :
              \E e \in Range(log) : e.op = "task_executer returned" /\ e.n = t.ref
    /\ (\E e \in Range(log) : Phase(e.op) >= 4) =>
          \A n \in DOMAIN Original.data_generators :
              \E e \in Range(log) : e.op = "calc_data_generator_results" /\ e.n = n

\* a run that returned after calls of all five phases
C7_Witness ==
    /\ pc = "returned"
    /\ \A ph \in 1..5 : \E e \in Range(log) : Phase(e.op) = ph
    /\ Len(Original.tasks) = 2

\* C8: a raised error leaves exec_doc at once: the error is raised at the
\* step that fails, and after it no collaborator is called, no result is
\* stored and exec_doc does not return
C8_ErrorsPropagate ==
    [][/\ error' # NoError => pc' = "raised"
       /\ error # NoError =>
             /\ pc' = "raised"
             /\ UNCHANGED <<log, variable_results, data_gen_results, report_results>>]_vars

\* a run that raised in the evaluation of the first of two data generators
\* and has shaped no output
C8_Witness ==
    /\ pc = "raised"
    /\ error.what = "calc_data_generator_results"
    /\ Len(Events("calc_data_generator_results")) = 1
    /\ Len(D.data_generators) = 2
    /\ D.outputs # <<>>
    /\ Events("DataFrame") = <<>>

\* C9: when the results bound to the data sets of a report differ in shape,
\* handling the report raises an error that names the report, and the
\* report is neither stored nor written; when they agree the report is
\* stored and no error is raised
C9_ShapeMismatchRaises ==
    [][(/\ pc = "generate outputs"
        /\ i <= Len(D.outputs)
        /\ D.outputs[i].kind = "Report"
        /\ \A k \in DOMAIN D.outputs[i].data_sets :
              D.outputs[i].data_sets[k].data_generator \in DOMAIN data_gen_results)
       => LET output == D.outputs[i]
              shapes == {data_gen_results[output.data_sets[k].data_generator].shape :
                            k \in DOMAIN output.data_sets}
          IN  IF Cardinality(shapes) > 1
              THEN /\ pc' = "raised"
                   /\ error'.type = "ValueError"
                   /\ error'.what = ShapeMismatch
                   /\ error'.output = output.id
                   /\ output.id \notin DOMAIN report_results'
                   /\ log' = log
              ELSE /\ error' = NoError
                   /\ output.id \in DOMAIN report_results']_vars

\* a run that raised on the second output, a report of two data sets whose
\* results have the shapes (3,) and (4,)
C9_Witness ==
    /\ pc = "raised"
    /\ error.what = ShapeMismatch
    /\ error.output = OutputIds[2]
    /\ OutputIds[1] \in DOMAIN report_results
    /\ OutputIds[2] \notin DOMAIN report_results
    /\ {data_gen_results[D.outputs[2].data_sets[k].data_generator].shape :
           k \in DOMAIN D.outputs[2].data_sets} = {<<3>>, <<4>>}

\* C10: a Plot2D or Plot3D output never raises: handling it emits one
\* feature-not-supported warning, stores nothing, invokes no writer and
\* goes on to the next output
C10_PlotsSkipped ==
    /\ [](\A n \in DOMAIN D.outputs :
             D.outputs[n].kind \in {"Plot2D", "Plot3D"} =>
                 /\ D.outputs[n].id \notin DOMAIN report_results
                 /\ \A e \in Range(log) : e.n = n => e.op \notin {"DataFrame", "ReportWriter"})
    /\ [][(/\ pc = "generate outputs"
           /\ i <= Len(D.outputs)
           /\ D.outputs[i].kind \in {"Plot2D", "Plot3D"})
          => /\ pc' = "generate outputs"
             /\ i' = i + 1
             /\ error' = NoError
             /\ log' = Append(log, Event("warn", i, "SedmlFeatureNotSupportedWarning"))
             /\ report_results' = report_results]_vars

\* a run that returned after skipping a Plot3D and then writing a report
C10_Witness ==
    /\ pc = "returned"
    /\ Len(D.outputs) = 2
    /\ D.outputs[1].kind = "Plot3D"
    /\ D.outputs[2].kind = "Report"
    /\ \E e \in Range(log) : e.op = "warn" /\ e.n = 1
    /\ \E e \in Range(log) : e.op = "ReportWriter" /\ e.n = 2

\* a report of which two data sets carry the same label
DuplicateLabels(output) ==
    \E k, m \in DOMAIN output.data_sets :
        k # m /\ output.data_sets[k].label = output.data_sets[m].label

\* C11: data sets of one report that carry the same label do not raise:
\* handling the report emits one warning, and the report is shaped with one
\* row per data set (the rows of equal label are all kept, in the order of
\* the data sets), stored under its id and handed to the writer
C11_DuplicateLabelsWarned ==
    [][(/\ pc = "generate outputs"
        /\ i <= Len(D.outputs)
        /\ D.outputs[i].kind = "Report"
        /\ DuplicateLabels(D.outputs[i])
        /\ \A k \in DOMAIN D.outputs[i].data_sets :
              D.outputs[i].data_sets[k].data_generator \in DOMAIN data_gen_results
        /\ \A k, m \in DOMAIN D.outputs[i].data_sets :
              data_gen_results[D.outputs[i].data_sets[k].data_generator].shape
                  = data_gen_results[D.outputs[i].data_sets[m].data_generator].shape)
       => LET output == D.outputs[i] IN
          /\ error' = NoError
          /\ log' = log \o <<Event("warn", i, "IllogicalSedmlWarning"),
                              Event("DataFrame", i, output.id)>>
          /\ output.id \in DOMAIN report_results'
          /\ Len(report_results'[output.id]) = Len(output.data_sets)
          /\ \A k \in DOMAIN output.data_sets :
                /\ report_results'[output.id][k].index = output.data_sets[k].label
                /\ report_results'[output.id][k].data
                       = data_gen_results[output.data_sets[k].data_generator]
          /\ pc' = "write report"
          /\ j' = 1]_vars

\* a run that returned after warning about, storing and writing a report
\* whose two data sets carry one label and the results of two data generators
C11_Witness ==
    /\ pc = "returned"
    /\ \E n \in DOMAIN D.outputs :
          /\ D.outputs[n].kind = "Report"
          /\ Len(D.outputs[n].data_sets) = 2
          /\ DuplicateLabels(D.outputs[n])
          /\ D.outputs[n].data_sets[1].data_generator
                 # D.outputs[n].data_sets[2].data_generator
          /\ Len(report_results[D.outputs[n].id]) = 2
          /\ \E e \in Range(log) : e.op = "warn" /\ e.n = n /\ e.f = "IllogicalSedmlWarning"
          /\ \E e \in Range(log) : e.op = "ReportWriter" /\ e.n = n

\* C12: a task that is not a Task raises an unsupported-feature error at
\* the step that reaches it in the order of the ids, without a call of the
\* task executer for it; the task executer is never invoked for such a task
\* or for a task of greater id, and a run of a document that holds such a
\* task does not return
C12_OtherTaskRaises ==
    /\ [](/\ \A e \in Range(log) :
              e.op = "task_executer" =>
                  /\ TaskByRef(e.n).kind = "Task"
                  /\ \A t \in Range(Original.tasks) :
                        t.kind # "Task" => ~StrLess(t.id, TaskByRef(e.n).id)
          /\ pc = "returned" => \A t \in Range(Original.tasks) : t.kind = "Task")
    /\ [][(/\ pc = "execute simulations"
           /\ i <= Len(D.tasks)
           /\ D.tasks[i].kind # "Task")
          => /\ pc' = "raised"
             /\ error'.type = "NotImplementedError"
             /\ error'.class = D.tasks[i].kind
             /\ log' = log
             /\ variable_results' = variable_results]_vars

\* a run that raised on a task of another kind, declared first and reached
\* second, after the task executer returned for the Task of smaller id
C12_Witness ==
    /\ pc = "raised"
    /\ error.type = "NotImplementedError"
    /\ error.class = "OtherTask"
    /\ i = 2
    /\ Original.tasks[1].kind = "OtherTask"
    /\ Len(Events("task_executer returned")) = 1

\* C13: a run that returns has stored one table for every Report of the
\* document and for nothing else, under the id of the output and with one
\* row per data set, and one result that is not None for every variable id
\* requested from a task of the document and for no other id
C13_ReturnedResults ==
    pc = "returned" =>
        LET reports == {n \in DOMAIN D.outputs : D.outputs[n].kind = "Report"} IN
        /\ DOMAIN report_results = {D.outputs[n].id : n \in reports}
        /\ Cardinality(DOMAIN report_results) = Cardinality(reports)
        /\ \A n \in reports :
              Len(report_results[D.outputs[n].id]) = Len(D.outputs[n].data_sets)
        /\ DOMAIN variable_results = UNION {Requested(t) : t \in Range(D.tasks)}
        /\ \A id \in DOMAIN variable_results : ~variable_results[id].isNone

\* a run that returned a report and a result for the one requested variable
\* after a task executer returned a result for another variable as well
C13_Witness ==
    /\ pc = "returned"
    /\ DOMAIN report_results = {OutputIds[1]}
    /\ DOMAIN variable_results = {"x"}
    /\ DOMAIN task_variable_results \ DOMAIN variable_results # {}

\* the formats the report writer was invoked with for output n, in order
WrittenFormats(n) ==
    LET ForOutput(e) == e.op = "ReportWriter" /\ e.n = n
        written == SelectSeq(log, ForOutput)
    IN  [k \in DOMAIN written |-> written[k].f]

\* C14: the report writer is never invoked for an output that is not a
\* Report; in a run that returns it has been invoked for every Report once
\* per entry of report_formats (the formats of the configuration when the
\* argument is None), in the order of the entries, so the number of
\* invocations is the number of Reports times the number of entries
C14_WrittenOncePerFormat ==
    /\ \A e \in Range(log) :
          e.op = "ReportWriter" =>
              /\ e.n \in DOMAIN D.outputs
              /\ D.outputs[e.n].kind = "Report"
    /\ pc = "returned" =>
          LET reports == {n \in DOMAIN D.outputs : D.outputs[n].kind = "Report"} IN
          /\ \A n \in reports : WrittenFormats(n) = report_formats
          /\ Len(Events("ReportWriter")) = Cardinality(reports) * Len(report_formats)
          /\ report_formats # NoFormats

\* a run that returned after writing each of two reports in two formats
C14_Witness ==
    /\ pc = "returned"
    /\ Len(D.outputs) = 2
    /\ report_formats = <<"h5", "csv">>
    /\ Len(Events("ReportWriter")) = 4

\* C15: the variable results are written once per variable id: a result
\* stored for a variable id is not replaced by a later step of the run
C15_VariableResultsWriteOnce ==
    [][\A id \in DOMAIN variable_results :
          /\ id \in DOMAIN variable_results'
          /\ variable_results'[id] = variable_results[id]]_vars

\* the loop over the models has finished the iteration for model n
Processed(n) ==
    CASE pc = "process arguments" -> FALSE
      [] pc = "apply changes to models" -> n < i
      [] pc = "raised" /\ error.what = "SedmlSimulationReader" -> FALSE
      [] pc = "raised" /\ error.what = "apply_changes_to_xml_model" -> n < i
      [] OTHER -> TRUE

\* C16: for every model the applier is invoked only when
\* apply_xml_model_changes is true and the model has a change, at most once
\* and with a temporary file made for this call and no other; once the
\* model is processed, its source is that temporary file when the applier
\* was due, and otherwise no temporary file was made for it and its source
\* is the declared source, appended to working_dir when relative and as
\* declared when absolute
C16_ChangesAppliedWhenDue ==
    /\ \A p, q \in DOMAIN log :
          (log[p].op = "mkstemp" /\ log[q].op = "mkstemp" /\ p # q) => log[p].f # log[q].f
    /\ \A n \in DOMAIN Original.models :
          LET declared == Original.models[n]
              due == apply_xml_model_changes /\ declared.changes # <<>>
              applied == {p \in DOMAIN log :
                             log[p].op = "apply_changes_to_xml_model" /\ log[p].n = n}
              made == {p \in DOMAIN log : log[p].op = "mkstemp" /\ log[p].n = n}
          IN  /\ Cardinality(applied) <= 1
              /\ Cardinality(made) = Cardinality(applied)
              /\ applied # {} => due
              /\ \A p \in applied : \E q \in made : q < p /\ log[q].f = log[p].f
              /\ Processed(n) =>
                    IF due
                    THEN /\ Cardinality(applied) = 1
                         /\ \A p \in applied :
                               D.models[n].source = [abs |-> TRUE, parts |-> <<"tmp", log[p].f>>]
                    ELSE /\ made = {}
                         /\ D.models[n].source =
                                IF declared.source.abs
                                THEN declared.source
                                ELSE [abs |-> working_dir.abs,
                                      parts |-> working_dir.parts \o declared.source.parts]

\* a run past the models of which the first, with a change, got a temporary
\* file as source and the second, absolute and without change, kept its own
C16_Witness ==
    /\ pc = "execute simulations"
    /\ apply_xml_model_changes
    /\ ~working_dir.abs
    /\ Len(D.models) = 2
    /\ Original.models[1].changes # <<>>
    /\ D.models[1].source \in files
    /\ Original.models[2].changes = <<>>
    /\ Original.models[2].source.abs
    /\ D.models[2].source = Original.models[2].source

\* the output of the document with the given id
OutputById(id) == CHOOSE o \in Range(D.outputs) : o.id = id

\* C26: the table of every report that has been shaped has one row per
\* data set of the report, in the order of the data sets: the k-th row
\* holds the result of the data generator of the k-th data set under the
\* label of the k-th data set
C26_RowPerDataSet ==
    \A id \in DOMAIN report_results :
        LET data_sets == OutputById(id).data_sets
            table == report_results[id]
        IN  /\ Len(table) = Len(data_sets)
            /\ \A k \in DOMAIN data_sets :
                  /\ table[k].index = data_sets[k].label
                  /\ table[k].data = data_gen_results[data_sets[k].data_generator]

\* a report shaped from two data sets of different labels that are bound to
\* the same data generator
C26_Witness ==
    \E id \in DOMAIN report_results :
        LET data_sets == OutputById(id).data_sets IN
        /\ Len(data_sets) = 2
        /\ data_sets[1].data_generator = data_sets[2].data_generator
        /\ data_sets[1].label # data_sets[2].label
        /\ Len(report_results[id]) = 2
        /\ report_results[id][2].index = data_sets[2].label

\* the places in the log of what was done for the n-th output
OutputEvents(n) ==
    {k \in DOMAIN log : log[k].op \in {"DataFrame", "warn", "ReportWriter"} /\ log[k].n = n}

\* C27: when the loop over the outputs reaches an output that is neither a
\* Report, a Plot2D nor a Plot3D, exec_doc raises NotImplementedError naming
\* the class of the output; every report before it has been stored and
\* written in every format, and nothing has been done or is done for it or
\* for an output after it
C27_OtherOutputRaises ==
    /\ [](error.what = "Outputs of type are not supported" =>
            /\ pc = "raised"
            /\ error.type = "NotImplementedError"
            /\ D.outputs[i].kind \notin {"Report", "Plot2D", "Plot3D"}
            /\ error.class = D.outputs[i].kind
            /\ \A n \in 1..(i - 1) :
                  D.outputs[n].kind = "Report" =>
                      /\ D.outputs[n].id \in DOMAIN report_results
                      /\ WrittenFormats(n) = report_formats
            /\ \A n \in i..Len(D.outputs) :
                  /\ OutputEvents(n) = {}
                  /\ D.outputs[n].id \notin DOMAIN report_results)
    /\ [][(/\ pc = "generate outputs"
           /\ i <= Len(D.outputs)
           /\ D.outputs[i].kind \notin {"Report", "Plot2D", "Plot3D"})
              => /\ pc' = "raised"
                 /\ error'.type = "NotImplementedError"
                 /\ error'.what = "Outputs of type are not supported"
                 /\ UNCHANGED <<log, report_results, files>>]_vars

\* the error raised for the second of three outputs, after the report
\* before it was stored and written
C27_Witness ==
    /\ pc = "raised"
    /\ error.what = "Outputs of type are not supported"
    /\ i = 2
    /\ Len(D.outputs) = 3
    /\ D.outputs[1].kind = "Report"
    /\ D.outputs[3].kind = "Report"
    /\ DOMAIN report_results = {D.outputs[1].id}
    /\ WrittenFormats(1) = report_formats

\* the file of the n-th model as the caller declared it
OriginalFile(n) ==
    LET source == Original.models[n].source
    IN  IF source.abs THEN source
        ELSE [abs |-> working_dir.abs, parts |-> working_dir.parts \o source.parts]

\* the names of the files given to the calls of op, as a set
FilesOf(op) == {e.f : e \in {x \in Range(log) : x.op = op}}

\* C28: exec_doc removes only temporary files it made, each once, and in a
\* run that returns it has removed all of them; the applier is given the
\* file of the model as declared to read and the temporary file made for
\* the model to write, and no file of a model as declared is written or
\* removed
C28_OnlyOwnFilesRemoved ==
    /\ \A p \in DOMAIN log :
          log[p].op = "os.remove" =>
              /\ \E q \in 1..(p - 1) : log[q].op = "mkstemp" /\ log[q].f = log[p].f
              /\ \A q \in DOMAIN log : (q # p /\ log[q].op = "os.remove") => log[q].f # log[p].f
              /\ \A n \in DOMAIN Original.models :
                    [abs |-> TRUE, parts |-> <<"tmp", log[p].f>>] # OriginalFile(n)
    /\ \A p \in DOMAIN log :
          log[p].op = "apply_changes_to_xml_model" =>
              /\ log[p].in_file = OriginalFile(log[p].n)
              /\ p > 1 /\ log[p - 1].op = "mkstemp" /\ log[p - 1].n = log[p].n
              /\ log[p].out_file = [abs |-> TRUE, parts |-> <<"tmp", log[p - 1].f>>]
              /\ \A n \in DOMAIN Original.models : log[p].out_file # OriginalFile(n)
    /\ pc = "returned" =>
          /\ FilesOf("os.remove") = FilesOf("mkstemp")
          /\ Len(Events("os.remove")) = Len(Events("mkstemp"))
          /\ files = {}

\* a run that returned after it made and removed a temporary file for each
\* of two models
C28_Witness ==
    /\ pc = "returned"
    /\ Len(Events("mkstemp")) = 2
    /\ Len(Events("os.remove")) = 2
    /\ FilesOf("os.remove") = {TmpNames[1], TmpNames[2]}
    /\ \A n \in DOMAIN Original.models : ~Original.models[n].source.abs

\* the identities of the tasks the task executer was invoked with, in order
Invoked == [k \in DOMAIN Events("task_executer") |-> Events("task_executer")[k].n]

\* task t is ahead of task u: its id is smaller, or it has the same id
\* and is declared earlier
Ahead(t, u) == StrLess(t.id, u.id) \/ (t.id = u.id /\ t.ref < u.ref)

\* C29: the order of the invocations of the task executer is fixed by the
\* document: the tasks invoked before a task are exactly the tasks of
\* smaller id and the tasks of the same id that are declared before it
C29_DeterministicOrder ==
    \A k \in DOMAIN Invoked :
        {Invoked[m] : m \in 1..(k - 1)}
            = {u.ref : u \in {v \in Range(Original.tasks) : Ahead(v, TaskByRef(Invoked[k]))}}

\* three tasks invoked, the one declared last first, then the two of the
\* same id in the order of their declaration
C29_Witness ==
    /\ Invoked = <<3, 1, 2>>
    /\ TaskByRef(1).id = TaskByRef(2).id
    /\ StrLess(TaskByRef(3).id, TaskByRef(1).id)

----------------------------------------------------------------------------
(* Python values: the fields of the entities of the data models and the    *)
(* components of the tuples that to_tuple returns.  A value is a record of *)
(* its type, its literal and, for a tuple, its items; the value TypeError  *)
(* stands for the exception of that name having been raised.               *)

Value(t, s, items) == [t |-> t, s |-> s, items |-> items]
NoneValue == Value("NoneType", "", <<>>)
str(s) == Value("str", s, <<>>)
bool(x) == Value("bool", IF x THEN "True" ELSE "False", <<>>)
int(s) == Value("int", s, <<>>)
datetime(s) == Value("datetime", s, <<>>)
TypeError == Value("TypeError", "", <<>>)

\* (x, y, ...): the tuple of the items; an exception raised while an item
\* is evaluated leaves the expression
tuple(items) ==
    IF \E k \in DOMAIN items : items[k] = TypeError
    THEN TypeError
    ELSE Value("tuple", "", items)

\* the place of a literal of the model in the order Python gives the
\* values of one type
Rank(s) ==
    LET Literals == <<"False", "True", "1", "2", "3", "2020-12-06", "2021-01-01",
                      "a", "b", "c">>
    IN  CHOOSE n \in DOMAIN Literals : Literals[n] = s

\* x < y as Python evaluates it: tuples by their first differing items,
\* values of one type by their order, anything else raises TypeError; with
\* none_first, None is less than any value instead
RECURSIVE lt(_, _, _)
lt(x, y, none_first) ==
    IF x.t = "tuple" /\ y.t = "tuple"
    THEN LET both == DOMAIN x.items \cap DOMAIN y.items
             differ == {k \in both : x.items[k] # y.items[k]}
         IN  IF differ = {}
             THEN IF Len(x.items) < Len(y.items) THEN "True" ELSE "False"
             ELSE LET k == CHOOSE d \in differ : \A e \in differ : d <= e
                  IN  lt(x.items[k], y.items[k], none_first)
    ELSE IF none_first /\ (x.t = "NoneType" \/ y.t = "NoneType")
    THEN IF x.t = "NoneType" /\ y.t # "NoneType" THEN "True" ELSE "False"
    ELSE IF x.t = y.t /\ x.t \in {"str", "bool", "int", "datetime"}
    THEN IF Rank(x.s) < Rank(y.s) THEN "True" ELSE "False"
    ELSE "TypeError"

\* count_run of list.sort: the length of the run the list starts with, 0
\* when a comparison raised
RECURSIVE count_run(_, _, _, _)
count_run(a, k, descending, none_first) ==
    IF k = Len(a) THEN k
    ELSE LET c == lt(a[k + 1], a[k], none_first) IN
         IF c = "TypeError" THEN 0
         ELSE IF (c = "True") = descending
              THEN count_run(a, k + 1, descending, none_first)
              ELSE k

\* the place in the sorted list a for pivot, found by bisection between l
\* and r as binarysort of list.sort does; 0 when a comparison raised
RECURSIVE bisect(_, _, _, _, _)
bisect(a, pivot, l, r, none_first) ==
    IF l >= r THEN l
    ELSE LET p == l + ((r - l) \div 2)
             c == lt(pivot, a[p], none_first)
         IN  IF c = "TypeError" THEN 0
             ELSE IF c = "True"
                  THEN bisect(a, pivot, l, p, none_first)
                  ELSE bisect(a, pivot, p + 1, r, none_first)

\* binarysort of list.sort: the items of rest inserted one by one into the
\* sorted list a; TypeError when a comparison raised
RECURSIVE binarysort(_, _, _)
binarysort(a, rest, none_first) ==
    IF rest = <<>> THEN tuple(a)
    ELSE LET pivot == Head(rest)
             at == bisect(a, pivot, 1, Len(a) + 1, none_first)
         IN  IF at = 0 THEN TypeError
             ELSE binarysort(SubSeq(a, 1, at - 1) \o <<pivot>> \o SubSeq(a, at, Len(a)),
                             Tail(rest), none_first)

\* list.sort for a list shorter than 64: the first run, reversed when it
\* descends, then binarysort of the items behind it
listsort(a, none_first) ==
    IF \E k \in DOMAIN a : a[k] = TypeError THEN TypeError
    ELSE IF Len(a) < 2 THEN tuple(a)
    ELSE LET first == lt(a[2], a[1], none_first)
             n == count_run(a, 2, first = "True", none_first)
             run == SubSeq(a, 1, n)
         IN  IF first = "TypeError" \/ n = 0 THEN TypeError
             ELSE binarysort(IF first = "True"
                             THEN [k \in 1..n |-> run[n + 1 - k]]
                             ELSE run,
                             SubSeq(a, n + 1, Len(a)), none_first)

\* tuple(sorted(values))
sorted(values) == listsort(values, FALSE)

\* tuple(none_sorted(values)): sorted with None before any value
none_sorted(values) == listsort(values, TRUE)

----------------------------------------------------------------------------
(* The entities of sedml.data_model and combine.data_model.  An entity is  *)
(* a record of its class and its attributes; an attribute holds a value, a *)
(* list of entities, or an entity or None.                                 *)

\* None where an entity is expected
NoneObject == [class |-> "NoneType"]
IsNone(x) == x.class = "NoneType"

CombineArchiveAuthor(given_name, family_name) ==
    [class |-> "CombineArchiveAuthor", given_name |-> given_name, family_name |-> family_name]

CombineArchiveContent(location, format, master, description, authors, created, updated) ==
    [class |-> "CombineArchiveContent", location |-> location, format |-> format,
     master |-> master, description |-> description, authors |-> authors,
     created |-> created, updated |-> updated]

CombineArchive(contents, description, authors, created, updated) ==
    [class |-> "CombineArchive", contents |-> contents, description |-> description,
     authors |-> authors, created |-> created, updated |-> updated]

\* ModelAttributeChange(target, new_value): name is an attribute the
\* constructor of ModelChange leaves None
ModelAttributeChange(target, new_value) ==
    [class |-> "ModelAttributeChange", name |-> NoneValue, target |-> target,
     new_value |-> new_value]

SedModel(id, name, source, language, changes) ==
    [class |-> "Model", id |-> id, name |-> name, source |-> source,
     language |-> language, changes |-> changes]

Algorithm(kisao_id, changes) ==
    [class |-> "Algorithm", kisao_id |-> kisao_id, changes |-> changes]

SteadyStateSimulation(id, name, algorithm) ==
    [class |-> "SteadyStateSimulation", id |-> id, name |-> name, algorithm |-> algorithm]

OneStepSimulation(id, name, algorithm, step) ==
    [class |-> "OneStepSimulation", id |-> id, name |-> name, algorithm |-> algorithm,
     step |-> step]

UniformTimeCourseSimulation(id, name, algorithm, initial_time, output_start_time, output_end_time, number_of_points) ==
    [class |-> "UniformTimeCourseSimulation", id |-> id, name |-> name,
     algorithm |-> algorithm, initial_time |-> initial_time,
     output_start_time |-> output_start_time, output_end_time |-> output_end_time,
     number_of_points |-> number_of_points]

SedTask(id, name, model, simulation) ==
    [class |-> "Task", id |-> id, name |-> name, model |-> model, simulation |-> simulation]

SedDataGenerator(id, name, variables, parameters, math) ==
    [class |-> "DataGenerator", id |-> id, name |-> name, variables |-> variables,
     parameters |-> parameters, math |-> math]

SedDataSet(id, name, label, data_generator) ==
    [class |-> "DataSet", id |-> id, name |-> name, label |-> label,
     data_generator |-> data_generator]

Report(id, name, data_sets) ==
    [class |-> "Report", id |-> id, name |-> name, data_sets |-> data_sets]

Plot2D(id, name, curves) ==
    [class |-> "Plot2D", id |-> id, name |-> name, curves |-> curves]

Document(level, version, models, simulations, tasks, data_generators, outputs, metadata) ==
    [class |-> "SedDocument", level |-> level, version |-> version, models |-> models,
     simulations |-> simulations, tasks |-> tasks, data_generators |-> data_generators,
     outputs |-> outputs, metadata |-> metadata]

RECURSIVE to_tuple(_)
RECURSIVE is_equal(_, _)

\* a and b, of what two expressions return, "True" or "False", or of the
\* exception one of them raises: b is not evaluated unless a is true
and(a, b) == IF a = "True" THEN b ELSE a

\* self.f == other.f; reading an attribute that other does not have raises
\* AttributeError
eq(e, o, f) ==
    IF f \notin DOMAIN o THEN "AttributeError"
    ELSE IF e[f] = o[f] THEN "True" ELSE "False"

\* [x.to_tuple() for x in entities]
to_tuples(entities) == [k \in DOMAIN entities |-> to_tuple(entities[k])]

\* x.to_tuple() if x else None
to_tuple_if(x) == IF IsNone(x) THEN NoneValue ELSE to_tuple(x)

\* self.f is None or self.f.is_equal(other.f)
is_equal_if_or(e, o, f) ==
    IF f \notin DOMAIN o THEN "AttributeError"
    ELSE IF IsNone(e[f]) THEN "True"
    ELSE is_equal(e[f], o[f])

\* (self.f is None and self.f == other.f)
\* or (self.f is not None and self.f.is_equal(other.f))
is_equal_if(e, o, f) ==
    IF f \notin DOMAIN o THEN "AttributeError"
    ELSE IF IsNone(e[f]) THEN (IF IsNone(o[f]) THEN "True" ELSE "False")
    ELSE is_equal(e[f], o[f])

\* the one-to-one mappings of the places of a list of n items
Bijections(n) == {f \in [1..n -> 1..n] : \A k, m \in 1..n : f[k] = f[m] => k = m}

\* are_lists_equal(self.f, other.f): the lists hold equal items, in any
\* order
are_lists_equal(e, o, f) ==
    IF f \notin DOMAIN o THEN "AttributeError"
    ELSE IF /\ Len(e[f]) = Len(o[f])
            /\ \E g \in Bijections(Len(e[f])) :
                  \A k \in DOMAIN e[f] : is_equal(e[f][k], o[f][g[k]]) = "True"
         THEN "True"
         ELSE "False"

----------------------------------------------------------------------------
(* combine.data_model *)

\* the master content required: an archive without one raises
get_master_content_required(archive) ==
    LET master == SelectSeq(archive.contents, LAMBDA content : content.master = bool(TRUE))
    IN  IF Len(master) = 1 THEN [raised |-> "", returned |-> master[1]]
        ELSE [raised |-> "ValueError", returned |-> NoneObject]

\* the first content marked as master picked
get_master_content_first(archive) ==
    LET master == SelectSeq(archive.contents, LAMBDA content : content.master = bool(TRUE))
    IN  IF master = <<>> THEN [raised |-> "", returned |-> NoneObject]
        ELSE [raised |-> "", returned |-> master[1]]

\* CombineArchive.get_master_content: None, the master content, or the
\* ValueError 'Multiple content items are marked as master'
get_master_content(archive) ==
    LET master == SelectSeq(archive.contents, LAMBDA content : content.master = bool(TRUE))
    IN  IF master = <<>> THEN [raised |-> "", returned |-> NoneObject]
        ELSE IF Len(master) = 1 THEN [raised |-> "", returned |-> master[1]]
        ELSE [raised |-> "ValueError", returned |-> NoneObject]

CombineArchive_to_tuple(e) ==
    LET contents == sorted(to_tuples(e.contents))
        authors == sorted(to_tuples(e.authors))
    IN  tuple(<<contents, e.description, authors, e.created, e.updated>>)

CombineArchive_is_equal(e, o) ==
    and(eq(e, o, "class"),
    and(are_lists_equal(e, o, "contents"),
    and(eq(e, o, "description"),
    and(are_lists_equal(e, o, "authors"),
    and(eq(e, o, "created"),
    eq(e, o, "updated"))))))

CombineArchiveContent_to_tuple(e) ==
    LET authors == sorted(to_tuples(e.authors))
    IN  tuple(<<e.location, e.format, e.master, e.description, authors, e.created, e.updated>>)

CombineArchiveContent_is_equal(e, o) ==
    and(eq(e, o, "class"),
    and(eq(e, o, "location"),
    and(eq(e, o, "format"),
    and(eq(e, o, "master"),
    and(eq(e, o, "description"),
    and(are_lists_equal(e, o, "authors"),
    and(eq(e, o, "created"),
    eq(e, o, "updated"))))))))

CombineArchiveAuthor_is_equal(e, o) ==
    and(eq(e, o, "class"),
    and(eq(e, o, "given_name"),
    eq(e, o, "family_name")))

CombineArchiveAuthor_to_tuple(e) == tuple(<<e.family_name, e.given_name>>)

----------------------------------------------------------------------------
(* sedml.data_model *)

SedDocument_to_tuple(e) ==
    tuple(<<e.level, e.version,
            none_sorted(to_tuples(e.models)),
            none_sorted(to_tuples(e.simulations)),
            none_sorted(to_tuples(e.tasks)),
            none_sorted(to_tuples(e.data_generators)),
            none_sorted(to_tuples(e.outputs)),
            to_tuple_if(e.metadata)>>)

SedDocument_is_equal(e, o) ==
    and(eq(e, o, "class"),
    and(eq(e, o, "level"),
    and(eq(e, o, "version"),
    and(are_lists_equal(e, o, "models"),
    and(are_lists_equal(e, o, "simulations"),
    and(are_lists_equal(e, o, "tasks"),
    and(are_lists_equal(e, o, "data_generators"),
    and(are_lists_equal(e, o, "outputs"),
    is_equal_if(e, o, "metadata")))))))))

\* simulations compared by their attributes alone
Simulation_is_equal_duck(e, o) ==
    and(eq(e, o, "id"),
    and(eq(e, o, "name"),
    is_equal_if(e, o, "algorithm")))

Simulation_is_equal(e, o) ==
    and(eq(e, o, "class"),
    and(eq(e, o, "id"),
    and(eq(e, o, "name"),
    is_equal_if(e, o, "algorithm"))))

\* one-step simulations compared as simulations
OneStepSimulation_is_equal_no_step(e, o) == Simulation_is_equal(e, o)

SteadyStateSimulation_to_tuple(e) == tuple(<<e.id, e.name, to_tuple_if(e.algorithm)>>)

OneStepSimulation_to_tuple(e) == tuple(<<e.id, e.name, to_tuple_if(e.algorithm), e.step>>)

OneStepSimulation_is_equal(e, o) ==
    and(Simulation_is_equal(e, o),
    eq(e, o, "step"))

UniformTimeCourseSimulation_to_tuple(e) ==
    tuple(<<e.id, e.name, to_tuple_if(e.algorithm),
            e.initial_time, e.output_start_time, e.output_end_time, e.number_of_points>>)

UniformTimeCourseSimulation_is_equal(e, o) ==
    and(Simulation_is_equal(e, o),
    and(eq(e, o, "initial_time"),
    and(eq(e, o, "output_start_time"),
    and(eq(e, o, "output_end_time"),
    eq(e, o, "number_of_points")))))

Algorithm_to_tuple(e) == tuple(<<e.kisao_id, none_sorted(to_tuples(e.changes))>>)

Algorithm_is_equal(e, o) ==
    and(eq(e, o, "class"),
    and(eq(e, o, "kisao_id"),
    are_lists_equal(e, o, "changes")))

Model_to_tuple(e) ==
    tuple(<<e.id, e.name, e.source, e.language, none_sorted(to_tuples(e.changes))>>)

Model_is_equal(e, o) ==
    and(eq(e, o, "class"),
    and(eq(e, o, "id"),
    and(eq(e, o, "name"),
    and(eq(e, o, "source"),
    and(eq(e, o, "language"),
    are_lists_equal(e, o, "changes"))))))

ModelChange_is_equal(e, o) ==
    and(eq(e, o, "class"),
    and(eq(e, o, "name"),
    eq(e, o, "target")))

ModelAttributeChange_to_tuple(e) == tuple(<<e.target, e.new_value>>)

ModelAttributeChange_is_equal(e, o) ==
    and(ModelChange_is_equal(e, o),
    eq(e, o, "new_value"))

AbstractTask_is_equal(e, o) ==
    and(eq(e, o, "class"),
    and(eq(e, o, "id"),
    eq(e, o, "name")))

Task_to_tuple(e) ==
    tuple(<<e.id, e.name, to_tuple_if(e.model), to_tuple_if(e.simulation)>>)

Task_is_equal(e, o) ==
    and(AbstractTask_is_equal(e, o),
    and(is_equal_if(e, o, "model"),
    is_equal_if(e, o, "simulation")))

DataGenerator_to_tuple(e) ==
    tuple(<<e.id, e.name,
            none_sorted(to_tuples(e.variables)),
            none_sorted(to_tuples(e.parameters)),
            e.math>>)

DataGenerator_is_equal(e, o) ==
    and(eq(e, o, "class"),
    and(eq(e, o, "id"),
    and(eq(e, o, "name"),
    and(are_lists_equal(e, o, "variables"),
    and(are_lists_equal(e, o, "parameters"),
    eq(e, o, "math"))))))

Output_is_equal(e, o) ==
    and(eq(e, o, "class"),
    and(eq(e, o, "id"),
    eq(e, o, "name")))

Report_to_tuple(e) == tuple(<<e.id, e.name, none_sorted(to_tuples(e.data_sets))>>)

Report_is_equal(e, o) ==
    and(Output_is_equal(e, o),
    are_lists_equal(e, o, "data_sets"))

DataSet_to_tuple(e) == tuple(<<e.id, e.name, e.label, to_tuple_if(e.data_generator)>>)

DataSet_is_equal(e, o) ==
    and(eq(e, o, "class"),
    and(eq(e, o, "id"),
    and(eq(e, o, "name"),
    and(eq(e, o, "label"),
    is_equal_if(e, o, "data_generator")))))

Plot2D_to_tuple(e) == tuple(<<e.id, e.name, none_sorted(to_tuples(e.curves))>>)

Plot2D_is_equal(e, o) ==
    and(eq(e, o, "class"),
    and(eq(e, o, "id"),
    and(eq(e, o, "name"),
    are_lists_equal(e, o, "curves"))))

\* e.to_tuple(), by the class of e
to_tuple(e) ==
    CASE e.class = "CombineArchive" -> CombineArchive_to_tuple(e)
      [] e.class = "CombineArchiveContent" -> CombineArchiveContent_to_tuple(e)
      [] e.class = "CombineArchiveAuthor" -> CombineArchiveAuthor_to_tuple(e)
      [] e.class = "SedDocument" -> SedDocument_to_tuple(e)
      [] e.class = "SteadyStateSimulation" -> SteadyStateSimulation_to_tuple(e)
      [] e.class = "OneStepSimulation" -> OneStepSimulation_to_tuple(e)
      [] e.class = "UniformTimeCourseSimulation" -> UniformTimeCourseSimulation_to_tuple(e)
      [] e.class = "Algorithm" -> Algorithm_to_tuple(e)
      [] e.class = "Model" -> Model_to_tuple(e)
      [] e.class = "ModelAttributeChange" -> ModelAttributeChange_to_tuple(e)
      [] e.class = "Task" -> Task_to_tuple(e)
      [] e.class = "DataGenerator" -> DataGenerator_to_tuple(e)
      [] e.class = "Report" -> Report_to_tuple(e)
      [] e.class = "DataSet" -> DataSet_to_tuple(e)
      [] e.class = "Plot2D" -> Plot2D_to_tuple(e)

\* e.is_equal(o), by the class of e: "True", "False" or the exception raised
is_equal(e, o) ==
    CASE e.class = "CombineArchive" -> CombineArchive_is_equal(e, o)
      [] e.class = "CombineArchiveContent" -> CombineArchiveContent_is_equal(e, o)
      [] e.class = "CombineArchiveAuthor" -> CombineArchiveAuthor_is_equal(e, o)
      [] e.class = "SedDocument" -> SedDocument_is_equal(e, o)
      [] e.class = "SteadyStateSimulation" -> Simulation_is_equal(e, o)
      [] e.class = "OneStepSimulation" -> OneStepSimulation_is_equal(e, o)
      [] e.class = "UniformTimeCourseSimulation" -> UniformTimeCourseSimulation_is_equal(e, o)
      [] e.class = "Algorithm" -> Algorithm_is_equal(e, o)
      [] e.class = "Model" -> Model_is_equal(e, o)
      [] e.class = "ModelAttributeChange" -> ModelAttributeChange_is_equal(e, o)
      [] e.class = "Task" -> Task_is_equal(e, o)
      [] e.class = "DataGenerator" -> DataGenerator_is_equal(e, o)
      [] e.class = "Report" -> Report_is_equal(e, o)
      [] e.class = "DataSet" -> DataSet_is_equal(e, o)
      [] e.class = "Plot2D" -> Plot2D_is_equal(e, o)

----------------------------------------------------------------------------
(* The entities the methods are applied to.  Child lists have up to        *)
(* MaxChildren items.  Every family holds entities of one part of the data *)
(* models, of several classes where the part has several; self and other   *)
(* are drawn from one family; other is None as well.                       *)

ListsOf(S) == SeqsUpTo(S, MaxChildren)

Authors ==
    {CombineArchiveAuthor(NoneValue, str("a")), CombineArchiveAuthor(str("a"), str("a")),
     CombineArchiveAuthor(str("a"), str("b"))}

\* content items that differ in location, master or created
Contents ==
    {CombineArchiveContent(str("a"), str("c"), bool(FALSE), NoneValue, <<>>, NoneValue, NoneValue),
     CombineArchiveContent(str("a"), str("c"), bool(TRUE), NoneValue, <<>>, NoneValue, NoneValue),
     CombineArchiveContent(str("a"), str("c"), bool(FALSE), NoneValue, <<>>,
                           datetime("2020-12-06"), NoneValue),
     CombineArchiveContent(str("b"), str("c"), bool(TRUE), NoneValue, <<>>, NoneValue, NoneValue)}

Archives ==
    {CombineArchive(contents, NoneValue, <<>>, NoneValue, NoneValue) : contents \in ListsOf(Contents)}

\* content items that differ in location, master, created, authors or
\* updated, and the authors
ContentEntities ==
    {CombineArchiveContent(str("a"), str("c"), bool(FALSE), NoneValue, authors,
                           NoneValue, updated) :
        authors \in ListsOf(Authors), updated \in {NoneValue, datetime("2020-12-06")}}
    \cup Contents
    \cup Authors

\* model changes, with the attribute name as constructed or assigned
ModelChanges ==
    {[ModelAttributeChange(target, new_value) EXCEPT !.name = name] :
        target \in {NoneValue, str("a"), str("b")}, new_value \in {NoneValue, str("a")},
        name \in {NoneValue, str("a")}}

\* the model changes, and models that differ in source or changes
ModelEntities ==
    ModelChanges
    \cup {SedModel(str("a"), NoneValue, source, NoneValue, changes) :
             source \in {NoneValue, str("a")},
             changes \in ListsOf({ModelAttributeChange(str("a"), str("a")),
                                  ModelAttributeChange(str("b"), NoneValue),
                                  [ModelAttributeChange(str("a"), str("a"))
                                      EXCEPT !.name = str("a")]})}

\* algorithms, and simulations of three classes that differ in id,
\* algorithm, step or a field of the time course
Simulations ==
    LET algorithms == {NoneObject, Algorithm(str("a"), <<>>), Algorithm(str("b"), <<>>)} IN
    (algorithms \ {NoneObject})
    \cup {SteadyStateSimulation(id, NoneValue, algorithm) :
             id \in {NoneValue, str("a")}, algorithm \in algorithms}
    \cup {OneStepSimulation(id, NoneValue, algorithm, step) :
             id \in {NoneValue, str("a")}, algorithm \in algorithms,
             step \in {NoneValue, int("1"), int("2")}}
    \cup {UniformTimeCourseSimulation(str("a"), NoneValue, NoneObject, initial_time,
                                      output_start_time, output_end_time, number_of_points) :
             initial_time \in {NoneValue, int("1")}, output_start_time \in {int("1"), int("2")},
             output_end_time \in {int("2"), int("3")}, number_of_points \in {int("1"), int("3")}}

\* tasks that differ in id, name, model or simulation
TaskEntities ==
    {SedTask(id, name, model, simulation) :
        id \in {str("a"), str("b")}, name \in {NoneValue, str("a")},
        model \in {NoneObject} \cup {SedModel(m, NoneValue, str("a"), NoneValue, <<>>) :
                                        m \in {str("a"), str("b")}},
        simulation \in {NoneObject, SteadyStateSimulation(str("a"), NoneValue, NoneObject),
                        OneStepSimulation(str("a"), NoneValue, NoneObject, int("1"))}}

\* data generators that differ in math, data sets that differ in id, label
\* or data generator
DataSetEntities ==
    LET data_generators == {SedDataGenerator(str("a"), NoneValue, <<>>, <<>>, math) :
                               math \in {str("a"), str("b")}}
    IN  data_generators
        \cup {SedDataSet(str("a"), NoneValue, str("a"), data_generator) :
                 data_generator \in {NoneObject} \cup data_generators}
        \cup {SedDataSet(str("b"), NoneValue, NoneValue, NoneObject),
              SedDataSet(str("a"), NoneValue, str("b"), NoneObject)}

\* outputs of two classes that differ in id, name or data sets
OutputEntities ==
    {Report(id, NoneValue, data_sets) :
        id \in {NoneValue, str("a")},
        data_sets \in ListsOf({e \in DataSetEntities :
                                  /\ e.class = "DataSet"
                                  /\ e.label # str("b")
                                  /\ ~IsNone(e.data_generator) =>
                                         e.data_generator.math = str("a")})}
    \cup {Plot2D(id, name, <<>>) : id \in {NoneValue, str("a")}, name \in {NoneValue, str("a")}}

\* documents of which one list varies
Documents ==
    LET WithLists(version, models, simulations, tasks, data_generators, outputs) ==
            Document(int("1"), version, models, simulations, tasks, data_generators, outputs,
                     NoneObject)
        tasks == {t \in TaskEntities :
                     /\ t.name = NoneValue
                     /\ IsNone(t.model) = IsNone(t.simulation)
                     /\ IsNone(t.model) = (t.id = str("b"))
                     /\ ~IsNone(t.model) => /\ t.model.id = str("a")
                                            /\ t.simulation.class = "SteadyStateSimulation"}
    IN  {WithLists(version, models, <<>>, <<>>, <<>>, <<>>) :
            version \in {int("2"), int("3")},
            models \in ListsOf({m \in ModelEntities : m.class = "Model" /\ m.changes = <<>>})}
        \cup {WithLists(int("3"), <<>>, simulations, <<>>, <<>>, <<>>) :
                 simulations \in ListsOf({e \in Simulations :
                                             /\ e.class \in {"SteadyStateSimulation",
                                                              "OneStepSimulation"}
                                             /\ e.id = str("a")
                                             /\ IsNone(e.algorithm)
                                             /\ e.class = "OneStepSimulation" => e.step = int("1")})}
        \cup {WithLists(int("3"), <<>>, <<>>, t, <<>>, <<>>) : t \in ListsOf(tasks)}
        \cup {WithLists(int("3"), <<>>, <<>>, <<>>, data_generators, <<>>) :
                 data_generators \in ListsOf({e \in DataSetEntities : e.class = "DataGenerator"})}
        \cup {WithLists(int("3"), <<>>, <<>>, <<>>, <<>>, outputs) :
                 outputs \in ListsOf({e \in OutputEntities :
                                         /\ e.id = str("a")
                                         /\ e.name = NoneValue
                                         /\ e.class = "Report" => e.data_sets = <<>>})}

----------------------------------------------------------------------------
(* The calls of the methods of the data models *)

DataModelInit ==
    /\ \E family \in {Archives, ContentEntities, ModelEntities, Simulations, TaskEntities,
                       DataSetEntities, OutputEntities, Documents} :
          self \in family /\ other \in family \cup {NoneObject}
    /\ is_equal_result = NotCalled
    /\ is_equal_reversed = NotCalled
    /\ to_tuple_result = <<>>
    /\ master_content = NoCall
    /\ heap = [ref \in {FileRef, CallerRef, CopyRef} |-> NoDoc]
    /\ doc = FileRef
    /\ working_dir = AbsoluteDir
    /\ apply_xml_model_changes = FALSE
    /\ report_formats = NoFormats
    /\ pc = "data model"
    /\ i = 0
    /\ j = 0
    /\ modified_model_filenames = <<>>
    /\ files = {}
    /\ variable_results = EmptyMap
    /\ task_variable_results = EmptyMap
    /\ data_gen_results = EmptyMap
    /\ report_results = EmptyMap
    /\ error = NoError
    /\ log = <<>>

\* self.is_equal(other)
IsEqual ==
    /\ is_equal_result = NotCalled
    /\ is_equal_result' = is_equal(self, other)
    /\ UNCHANGED <<self, other, is_equal_reversed, to_tuple_result, master_content>>
    /\ UNCHANGED exec_vars

\* other.is_equal(self), of two entities
IsEqualReversed ==
    /\ ~IsNone(other)
    /\ is_equal_reversed = NotCalled
    /\ is_equal_reversed' = is_equal(other, self)
    /\ UNCHANGED <<self, other, is_equal_result, to_tuple_result, master_content>>
    /\ UNCHANGED exec_vars

\* self.to_tuple() and other.to_tuple(), of two entities
ToTuple ==
    /\ ~IsNone(other)
    /\ to_tuple_result = <<>>
    /\ to_tuple_result' = <<to_tuple(self), to_tuple(other)>>
    /\ UNCHANGED <<self, other, is_equal_result, is_equal_reversed, master_content>>
    /\ UNCHANGED exec_vars

\* self.get_master_content()
GetMasterContent ==
    /\ self.class = "CombineArchive"
    /\ master_content = NoCall
    /\ master_content' = get_master_content(self)
    /\ UNCHANGED <<self, other, is_equal_result, is_equal_reversed, to_tuple_result>>
    /\ UNCHANGED exec_vars

\* self.contents = contents.  The assignment makes the results of earlier
\* calls stale and the model drops them, so it is taken where no method has
\* been called yet: taken later it leads to the same states
SetContents ==
    /\ self.class = "CombineArchive"
    /\ is_equal_result = NotCalled /\ is_equal_reversed = NotCalled
    /\ to_tuple_result = <<>> /\ master_content = NoCall
    /\ \E contents \in ListsOf(Contents) :
          /\ contents # self.contents
          /\ self' = [self EXCEPT !.contents = contents]
    /\ is_equal_result' = NotCalled
    /\ is_equal_reversed' = NotCalled
    /\ to_tuple_result' = <<>>
    /\ master_content' = NoCall
    /\ UNCHANGED other
    /\ UNCHANGED exec_vars

DataModelNext ==
    \/ IsEqual
    \/ IsEqualReversed
    \/ ToTuple
    \/ GetMasterContent
    \/ SetContents

DataModelSpec == DataModelInit /\ [][DataModelNext]_vars

----------------------------------------------------------------------------
(* Properties of the data models *)

\* the places of the content items of an archive that are marked as master
Masters(archive) == {k \in DOMAIN archive.contents : archive.contents[k].master = bool(TRUE)}

\* C17: get_master_content returns None for an archive of which no content
\* item is marked as master, returns the item when exactly one is marked,
\* and raises an error when two or more are marked
C17_MasterContent ==
    master_content.raised # NotCalled =>
        CASE Cardinality(Masters(self)) = 0 ->
                 master_content.raised = "" /\ IsNone(master_content.returned)
          [] Cardinality(Masters(self)) = 1 ->
                 /\ master_content.raised = ""
                 /\ \A k \in Masters(self) : master_content.returned = self.contents[k]
          [] OTHER -> master_content.raised # ""

\* the master content returned for an archive of two content items, of
\* which the second is the master
C17_Witness ==
    /\ master_content.raised = ""
    /\ Len(self.contents) = 2
    /\ Masters(self) = {2}
    /\ master_content.returned = self.contents[2]
    /\ self.contents[1] # self.contents[2]

\* C18 as stated: every archive that is constructed or reached by assigning
\* its contents has at most one content item marked as master
C18_AtMostOneMaster == self.class = "CombineArchive" => Cardinality(Masters(self)) <= 1

\* C18 as amended: an archive can be constructed with, or assigned,
\* contents of which several are marked as master; get_master_content
\* raises ValueError for exactly these archives and returns none of the
\* marked items for them
C18_SeveralMastersReported ==
    master_content.raised # NotCalled =>
        /\ master_content.raised = "ValueError" <=> Cardinality(Masters(self)) > 1
        /\ Cardinality(Masters(self)) > 1 => IsNone(master_content.returned)

\* the error raised for an archive of two distinct content items that are
\* both marked as master
C18_Witness ==
    /\ master_content.raised = "ValueError"
    /\ Masters(self) = {1, 2}
    /\ self.contents[1].location # self.contents[2].location

\* both methods have been called on self and other
Compared == is_equal_result # NotCalled /\ to_tuple_result # <<>>

\* C19: two entities whose tuples are equal are equal: when
\* self.to_tuple() == other.to_tuple() then self.is_equal(other) is true
C19_TupleEqualImpliesEqual ==
    (/\ Compared
     /\ to_tuple_result[1] # TypeError
     /\ to_tuple_result[1] = to_tuple_result[2])
        => is_equal_result = "True"

\* C20: two equal entities have equal tuples: when self.is_equal(other) is
\* true then self.to_tuple() and other.to_tuple() return equal tuples
C20_EqualImpliesTupleEqual ==
    (Compared /\ is_equal_result = "True")
        => /\ to_tuple_result[1] # TypeError
           /\ to_tuple_result[2] # TypeError
           /\ to_tuple_result[1] = to_tuple_result[2]

\* C21: to_tuple returns a tuple for every entity and raises nothing, also
\* where a field is None in some children of the entity and set in others
C21_ToTupleReturns ==
    to_tuple_result # <<>> =>
        /\ to_tuple_result[1].t = "tuple"
        /\ to_tuple_result[2].t = "tuple"

\* C22: is_equal returns a boolean and raises nothing for every argument,
\* an entity of any class or None, and returns false for every argument of
\* another class than self, also where a child of self is set and the same
\* child of the argument is None
C22_IsEqualTotalAndStrict ==
    is_equal_result # NotCalled =>
        /\ is_equal_result \in {"True", "False"}
        /\ self.class # other.class => is_equal_result = "False"

\* false returned for a simulation of a sibling class that has the same id,
\* name and algorithm
C22_Witness ==
    /\ is_equal_result = "False"
    /\ self.class = "OneStepSimulation"
    /\ other.class = "SteadyStateSimulation"
    /\ self.id = other.id /\ self.name = other.name /\ self.algorithm = other.algorithm
    /\ ~IsNone(self.algorithm)

\* the attributes that hold lists of entities, and entities or None
ListAttributes ==
    {"contents", "authors", "models", "simulations", "tasks", "data_generators", "outputs",
     "changes", "variables", "parameters", "data_sets", "curves"}
ChildAttributes == {"metadata", "algorithm", "model", "simulation", "data_generator"}

\* a and b are entities of one class with the same values of all
\* attributes, whose lists of children hold the same children in any order,
\* at any depth
RECURSIVE Reordered(_, _)
Reordered(a, b) ==
    /\ DOMAIN a = DOMAIN b
    /\ \A f \in DOMAIN a :
          IF f \in ListAttributes
          THEN /\ Len(a[f]) = Len(b[f])
               /\ \E g \in Bijections(Len(a[f])) :
                     \A k \in DOMAIN a[f] : Reordered(a[f][k], b[f][g[k]])
          ELSE IF f \in ChildAttributes /\ ~IsNone(a[f]) /\ ~IsNone(b[f])
          THEN Reordered(a[f], b[f])
          ELSE a[f] = b[f]

\* C23: for two entities that differ only in the order of their lists of
\* children, is_equal returns true and to_tuple returns the same tuple
C23_OrderInsensitive ==
    (Compared /\ Reordered(self, other) /\ self # other) =>
        /\ is_equal_result = "True"
        /\ to_tuple_result[1].t = "tuple"
        /\ to_tuple_result[1] = to_tuple_result[2]

\* a and b are entities of one class that differ in one attribute, which
\* holds a value, and in nothing else
DifferInOneScalar(a, b) ==
    /\ DOMAIN a = DOMAIN b
    /\ a.class = b.class
    /\ Cardinality({f \in DOMAIN a : a[f] # b[f]}) = 1
    /\ \A f \in ListAttributes \cup ChildAttributes : f \in DOMAIN a => a[f] = b[f]

C25_ReflexiveAndDeterministic ==
    (Compared /\ self = other) =>
        /\ is_equal_result = "True"
        /\ to_tuple_result[1].t = "tuple"
        /\ to_tuple_result[2].t = "tuple"
        /\ to_tuple_result[1] = to_tuple_result[2]

\* C30: is_equal is symmetric: self.is_equal(other) and
\* other.is_equal(self) return the same, for entities of one class or of
\* two, also where a child is None in one of them only
C30_Symmetric ==
    (is_equal_result # NotCalled /\ is_equal_reversed # NotCalled) =>
        is_equal_result = is_equal_reversed

\* false returned both ways for two tasks that differ only in the model,
\* which is None in self
C30_Witness ==
    /\ is_equal_result = "False"
    /\ is_equal_reversed = "False"
    /\ self.class = "Task"
    /\ other.class = "Task"
    /\ IsNone(self.model) /\ ~IsNone(other.model)
    /\ self.id = other.id /\ self.name = other.name /\ self.simulation = other.simulation

====
